---- MODULE Spec2Model ----
(***************************************************************************)
(* Model of the customers/orders ETL reconciliation pipeline               *)
(* (src/src/etl.py, src/src/api.py).                                       *)
(*                                                                         *)
(* A DataFrame is a sequence of rows; a row is a record with one field per *)
(* column; a cell is a tagged value (null, string, number, timestamp,      *)
(* boolean, or "absent" for a column the frame does not have yet).         *)
(* Strings are sequences of one-character strings so that matching,        *)
(* parsing and normalisation are computed character by character.          *)
(***************************************************************************)
EXTENDS Integers, Sequences, FiniteSets, TLC

(***************************************************************************)
(* Bounds of the model.                                                    *)
(***************************************************************************)
\* rows of a raw frame handed to clean_customers / clean_orders
MaxRows == 2
\* rows of the raw frames behind the two frames handed to reconcile / join
MaxStoredRows == 2
\* rows of a file sent to an upload endpoint
MaxUploadRows == 2

(***************************************************************************)
(* Cells.                                                                  *)
(***************************************************************************)
Null      == [t |-> "null",   s |-> <<>>, n |-> 0]
Absent    == [t |-> "absent", s |-> <<>>, n |-> 0]
Str(x)    == [t |-> "str",    s |-> x,    n |-> 0]
\* a number, carried in tenths (100.0 is Num(1000))
Num(k)    == [t |-> "num",    s |-> <<>>, n |-> k]
\* a timestamp yyyymmdd
Stamp(k)  == [t |-> "date",   s |-> <<>>, n |-> k]
Bool(b)   == [t |-> "bool",   s |-> <<>>, n |-> IF b THEN 1 ELSE 0]

isna(c)   == c.t = "null"

(***************************************************************************)
(* Character helpers.                                                      *)
(***************************************************************************)
Digits == <<"0", "1", "2", "3", "4", "5", "6", "7", "8", "9">>

IsDigit(c) == \E i \in 1..10 : Digits[i] = c

DigitVal(c) == (CHOOSE i \in 1..10 : Digits[i] = c) - 1

AllDigits(s) == Len(s) > 0 /\ \A i \in 1..Len(s) : IsDigit(s[i])

RECURSIVE ParseInt(_)
ParseInt(s) ==
    IF Len(s) = 0 THEN 0
    ELSE 10 * ParseInt(SubSeq(s, 1, Len(s) - 1)) + DigitVal(s[Len(s)])

(***************************************************************************)
(* EMAIL_REGEX = [^@]+@[^@]+\.[^@]+ used through Series.str.match, which   *)
(* anchors at the start of the string only.                                *)
(***************************************************************************)
EMAIL_REGEX(s) ==
    \E i \in 2..Len(s) :
        /\ s[i] = "@"
        /\ \A j \in 1..(i - 1) : s[j] # "@"
        /\ \E k \in (i + 2)..(Len(s) - 1) :
              /\ s[k] = "."
              /\ \A j \in (i + 1)..(k - 1) : s[j] # "@"
              /\ s[k + 1] # "@"

\* Series.str.match: a missing email gives a missing flag
str_match(c) == IF c.t = "str" THEN Bool(EMAIL_REGEX(c.s)) ELSE Null

(***************************************************************************)
(* pd.to_datetime(col, errors="coerce") without dayfirst: a text           *)
(* "aa/bb/yyyy" is read month first; what cannot be read becomes NaT.      *)
(***************************************************************************)
DaysIn(m) == IF m = 2 THEN 29 ELSE IF m \in {4, 6, 9, 11} THEN 30 ELSE 31

IsDateText(s) ==
    /\ Len(s) = 10
    /\ s[3] = "/" /\ s[6] = "/"
    /\ AllDigits(SubSeq(s, 1, 2))
    /\ AllDigits(SubSeq(s, 4, 5))
    /\ AllDigits(SubSeq(s, 7, 10))
    /\ ParseInt(SubSeq(s, 1, 2)) \in 1..12
    /\ ParseInt(SubSeq(s, 4, 5)) \in 1..DaysIn(ParseInt(SubSeq(s, 1, 2)))

\* faulty variant: parses text only, so an already parsed timestamp becomes NaT
to_datetime_lossy(c) ==
    IF c.t = "str" /\ IsDateText(c.s)
    THEN Stamp(ParseInt(SubSeq(c.s, 7, 10)) * 10000
               + ParseInt(SubSeq(c.s, 1, 2)) * 100
               + ParseInt(SubSeq(c.s, 4, 5)))
    ELSE Null

to_datetime(c) ==
    IF c.t = "date" THEN c
    ELSE IF c.t = "str" /\ IsDateText(c.s)
    THEN Stamp(ParseInt(SubSeq(c.s, 7, 10)) * 10000
               + ParseInt(SubSeq(c.s, 1, 2)) * 100
               + ParseInt(SubSeq(c.s, 4, 5)))
    ELSE Null

(***************************************************************************)
(* pd.to_numeric(col, errors="coerce"): digits with at most one fractional *)
(* digit are read as a number (in tenths); anything else becomes NaN.      *)
(***************************************************************************)
IsNumberText(s) ==
    \/ AllDigits(s)
    \/ /\ Len(s) >= 3
       /\ s[Len(s) - 1] = "."
       /\ AllDigits(SubSeq(s, 1, Len(s) - 2))
       /\ IsDigit(s[Len(s)])

\* faulty variant: fills what cannot be read with 0 instead of NaN
to_numeric_fill(c) ==
    IF c.t = "num" THEN c
    ELSE IF c.t = "str" /\ IsNumberText(c.s)
    THEN IF AllDigits(c.s)
         THEN Num(10 * ParseInt(c.s))
         ELSE Num(10 * ParseInt(SubSeq(c.s, 1, Len(c.s) - 2)) + DigitVal(c.s[Len(c.s)]))
    ELSE Num(0)

to_numeric(c) ==
    IF c.t = "num" THEN c
    ELSE IF c.t = "str" /\ IsNumberText(c.s)
    THEN IF AllDigits(c.s)
         THEN Num(10 * ParseInt(c.s))
         ELSE Num(10 * ParseInt(SubSeq(c.s, 1, Len(c.s) - 2)) + DigitVal(c.s[Len(c.s)]))
    ELSE Null

(***************************************************************************)
(* Frame helpers.                                                          *)
(***************************************************************************)
\* df[mask]: the rows whose mask entry is TRUE, in the frame's order
RECURSIVE BoolIndex(_, _)
BoolIndex(df, mask) ==
    IF Len(df) = 0 THEN <<>>
    ELSE LET rest == BoolIndex(SubSeq(df, 1, Len(df) - 1), mask)
         IN  IF mask[Len(df)] THEN Append(rest, df[Len(df)]) ELSE rest

\* Series.isin(values)
isin(c, values) == \E i \in 1..Len(values) : values[i] = c

\* Series.duplicated(): TRUE at every row whose value occurred in an earlier row
duplicated(col) == [i \in 1..Len(col) |-> \E j \in 1..(i - 1) : col[j] = col[i]]

Column(df, name) == [i \in 1..Len(df) |-> df[i][name]]

(***************************************************************************)
(* clean_customers (etl.py 51-76).                                         *)
(***************************************************************************)
FlagCustomer(r) ==
    [r EXCEPT !.email_valid = str_match(r.email),
              !.signup_date = to_datetime(r.signup_date),
              !.signup_date_valid = Bool(~isna(to_datetime(r.signup_date)))]

\* faulty variant: also drops the rows whose email does not match
clean_customers_strict(df) ==
    LET a == BoolIndex(df, [i \in 1..Len(df) |-> ~isna(df[i].customer_id)])
        d == duplicated(Column(a, "customer_id"))
        b == BoolIndex(a, [i \in 1..Len(a) |-> ~d[i]])
        c == BoolIndex(b, [i \in 1..Len(b) |-> str_match(b[i].email) = Bool(TRUE)])
    IN  [i \in 1..Len(c) |-> FlagCustomer(c[i])]

clean_customers(df) ==
    LET a == BoolIndex(df, [i \in 1..Len(df) |-> ~isna(df[i].customer_id)])
        d == duplicated(Column(a, "customer_id"))
        b == BoolIndex(a, [i \in 1..Len(a) |-> ~d[i]])
    IN  [i \in 1..Len(b) |-> FlagCustomer(b[i])]

\* validate_customers (etl.py 39-48): the message raised, "" when it returns;
\* duplicate ids only print a warning
validate_customers(df) ==
    IF Len(df) = 0 THEN "Customer dataset is empty" ELSE ""

(***************************************************************************)
(* clean_orders (etl.py 116-139) and validate_orders (etl.py 104-113).     *)
(***************************************************************************)
FlagOrder(r) ==
    [r EXCEPT !.amount = to_numeric(r.amount),
              !.amount_valid = Bool(~isna(to_numeric(r.amount))),
              !.order_date = to_datetime(r.order_date),
              !.order_date_valid = Bool(~isna(to_datetime(r.order_date)))]

clean_orders(df) ==
    LET a == BoolIndex(df, [i \in 1..Len(df) |->
                 ~isna(df[i].order_id) /\ ~isna(df[i].customer_id)])
    IN  [i \in 1..Len(a) |-> FlagOrder(a[i])]

\* faulty variant: treats repeated order ids as validate_customers does, without raising
validate_orders_warn(df) ==
    IF Len(df) = 0 THEN "Orders dataset is empty" ELSE ""

validate_orders(df) ==
    IF Len(df) = 0 THEN "Orders dataset is empty"
    ELSE IF \E i \in 1..Len(df) : duplicated(Column(df, "order_id"))[i]
         THEN "Duplicate order IDs found"
         ELSE ""

(***************************************************************************)
(* reconcile_customers_orders (etl.py 145-177): both filters compare the   *)
(* customer_id cells as they are stored.                                   *)
(***************************************************************************)
orders_without_customers(customers, orders) ==
    BoolIndex(orders, [i \in 1..Len(orders) |->
        ~isin(orders[i].customer_id, Column(customers, "customer_id"))])

\* faulty variant: the mask is not negated
customers_without_orders_unnegated(customers, orders) ==
    BoolIndex(customers, [i \in 1..Len(customers) |->
        isin(customers[i].customer_id, Column(orders, "customer_id"))])

customers_without_orders(customers, orders) ==
    BoolIndex(customers, [i \in 1..Len(customers) |->
        ~isin(customers[i].customer_id, Column(orders, "customer_id"))])

\* faulty variant: the two orphan counts are exchanged
summary_swapped(customers, orders) ==
    [total_customers |-> Len(customers),
     total_orders |-> Len(orders),
     orders_without_customers |-> Len(customers_without_orders(customers, orders)),
     customers_without_orders |-> Len(orders_without_customers(customers, orders))]

summary(customers, orders) ==
    [total_customers |-> Len(customers),
     total_orders |-> Len(orders),
     orders_without_customers |-> Len(orders_without_customers(customers, orders)),
     customers_without_orders |-> Len(customers_without_orders(customers, orders))]

reconcile_customers_orders(customers, orders) ==
    [orders_without_customers |-> orders_without_customers(customers, orders),
     customers_without_orders |-> customers_without_orders(customers, orders),
     summary |-> summary(customers, orders)]

(***************************************************************************)
(* Normalizer (specification 4.1): string form, trailing ".0" removed,     *)
(* surrounding whitespace removed, lower case.  etl.py has no such step.   *)
(***************************************************************************)
astype_str(c) == IF c.t = "str" THEN c.s ELSE <<"n", "a", "n">>

strip_float_suffix(s) ==
    IF Len(s) >= 2 /\ s[Len(s) - 1] = "." /\ s[Len(s)] = "0"
    THEN SubSeq(s, 1, Len(s) - 2)
    ELSE s

RECURSIVE strip(_)
strip(s) ==
    IF Len(s) = 0 THEN s
    ELSE IF s[1] = " " THEN strip(SubSeq(s, 2, Len(s)))
    ELSE IF s[Len(s)] = " " THEN strip(SubSeq(s, 1, Len(s) - 1))
    ELSE s

lower_char(c) ==
    CASE c = "A" -> "a"
      [] c = "B" -> "b"
      [] c = "C" -> "c"
      [] OTHER   -> c

lower(s) == [i \in 1..Len(s) |-> lower_char(s[i])]

normalize_key(c) == lower(strip(strip_float_suffix(astype_str(c))))

(***************************************************************************)
(* Dataset Joiner (specification 4.7), imported by api.py as               *)
(* build_reconciled_dataset and absent from etl.py: both keys normalised,  *)
(* left join of orders onto customers, customer_exists added, the two      *)
(* customer-side flags filled with false.                                  *)
(***************************************************************************)
fillna_false(c) == IF isna(c) THEN Bool(FALSE) ELSE c

NoCustomer ==
    [customer_id |-> Null, email |-> Null, signup_date |-> Null,
     email_valid |-> Null, signup_date_valid |-> Null]

JoinedRow(o, c, found) ==
    [order_id |-> o.order_id,
     customer_id |-> Str(normalize_key(o.customer_id)),
     amount |-> o.amount,
     amount_valid |-> o.amount_valid,
     order_date |-> o.order_date,
     order_date_valid |-> o.order_date_valid,
     email |-> c.email,
     signup_date |-> c.signup_date,
     email_valid |-> fillna_false(c.email_valid),
     signup_date_valid |-> fillna_false(c.signup_date_valid),
     customer_exists |-> Bool(found)]

LeftJoinOne(o, customers) ==
    LET m == BoolIndex(customers, [i \in 1..Len(customers) |->
                 normalize_key(customers[i].customer_id) = normalize_key(o.customer_id)])
    IN  IF Len(m) = 0
        THEN <<JoinedRow(o, NoCustomer, FALSE)>>
        ELSE [i \in 1..Len(m) |-> JoinedRow(o, m[i], TRUE)]

RECURSIVE build_reconciled_dataset(_, _)
build_reconciled_dataset(customers, orders) ==
    IF Len(orders) = 0 THEN <<>>
    ELSE build_reconciled_dataset(customers, SubSeq(orders, 1, Len(orders) - 1))
            \o LeftJoinOne(orders[Len(orders)], customers)

(***************************************************************************)
(* Inputs: the cells and rows the raw frames are built from.               *)
(***************************************************************************)
\* customer_id cells: missing, and keys that differ by case, by surrounding
\* whitespace or by a trailing ".0" only
KeyCells ==
    {Null, Str(<<"a">>), Str(<<"A">>), Str(<<" ", "a">>),
     Str(<<"1">>), Str(<<"1", ".", "0">>)}

GoodEmail == Str(<<"a", "@", "x", ".", "c">>)
BadEmail  == Str(<<"a", "x">>)
EmailCells == {Null, GoodEmail, BadEmail}

GoodDate == Str(<<"0", "1", "/", "0", "2", "/", "2", "0", "2", "3">>)
BadDate  == Str(<<"b", "a", "d">>)
DateCells == {GoodDate, BadDate}

Amount100     == Str(<<"1", "0", "0", ".", "0">>)
AmountInvalid == Str(<<"i", "n", "v", "a", "l", "i", "d">>)
Amount200     == Str(<<"2", "0", "0", ".", "0">>)
AmountCells == {Null, Amount100, AmountInvalid, Amount200, Num(1500)}

OrderIdCells == {Null, Num(10), Num(20)}

RawCustomerRows ==
    [customer_id : KeyCells, email : EmailCells, signup_date : DateCells,
     email_valid : {Absent}, signup_date_valid : {Absent}]

RawOrderRows ==
    [order_id : OrderIdCells, customer_id : {Null, Str(<<"a">>)},
     amount : AmountCells, amount_valid : {Absent},
     order_date : DateCells, order_date_valid : {Absent}]

Frames(rows, n) == UNION {[1..k -> rows] : k \in 0..n}

\* the frames the service or the main program can hold when it reconciles:
\* whatever clean_customers / clean_orders return
StoredCustomers ==
    {clean_customers(df) : df \in Frames(
        [customer_id : KeyCells, email : {GoodEmail}, signup_date : {GoodDate},
         email_valid : {Absent}, signup_date_valid : {Absent}], MaxStoredRows)}

StoredOrders ==
    {clean_orders(df) : df \in Frames(
        [order_id : {Num(10), Num(20)}, customer_id : KeyCells,
         amount : {Amount100}, amount_valid : {Absent},
         order_date : {GoodDate}, order_date_valid : {Absent}], MaxStoredRows)}

(***************************************************************************)
(* The service (api.py): uploaded files, stored datasets, responses.       *)
(***************************************************************************)
\* CUSTOMERS_DF / ORDERS_DF: None, or a frame
None == [set |-> FALSE, df |-> <<>>]
Stored(df) == [set |-> TRUE, df |-> df]

NoSummary ==
    [total_customers |-> 0, total_orders |-> 0,
     orders_without_customers |-> 0, customers_without_orders |-> 0]

\* what a request answers: HTTP status, detail of the error, "rows" of an
\* upload, summary of a reconciliation
Response(status, detail, rows, counts) ==
    [status |-> status, detail |-> detail, rows |-> rows, summary |-> counts]

HTTPException(detail) == Response(400, detail, 0, NoSummary)

\* an exception no handler catches: the server answers 500
Unhandled(message) == Response(500, message, 0, NoSummary)

ContentTypes == {"text/csv", "application/vnd.ms-excel", "application/json"}

REQUIRED_CUSTOMER_COLUMNS == {"customer_id", "email", "signup_date"}

REQUIRED_ORDER_COLUMNS == {"order_id", "customer_id", "amount", "order_date"}

\* an uploaded file: its content type, whether pd.read_csv can read it, the
\* columns of its header and its rows; the files that are CSV with the
\* required header carry every frame, the others at most one row
UploadFiles(required, dropped, rows) ==
    [content_type : {"text/csv"}, parses : {TRUE}, columns : {required},
     rows : Frames(rows, MaxUploadRows)]
    \cup
    [content_type : ContentTypes, parses : BOOLEAN,
     columns : {required, required \ {dropped}},
     rows : Frames(rows, 1)]

CustomerFiles ==
    UploadFiles(REQUIRED_CUSTOMER_COLUMNS, "signup_date",
        [customer_id : {Null, Str(<<"a">>), Str(<<"A">>)},
         email : {Null, GoodEmail}, signup_date : {GoodDate},
         email_valid : {Absent}, signup_date_valid : {Absent}])

OrderFiles ==
    UploadFiles(REQUIRED_ORDER_COLUMNS, "order_date",
        [order_id : OrderIdCells, customer_id : {Str(<<"a">>)},
         amount : {Amount100}, amount_valid : {Absent},
         order_date : {GoodDate}, order_date_valid : {Absent}])

\* df["email"].str raises AttributeError unless the column read_csv built
\* holds strings: a column with no text cell is read as float64
str_accessor_raises(df) == \A i \in 1..Len(df) : df[i].email.t # "str"

(***************************************************************************)
(* upload_customers (api.py 52-90): the stored customers and the response. *)
(***************************************************************************)
upload_customers(file, stored) ==
    IF file.content_type \notin {"text/csv", "application/vnd.ms-excel"}
    THEN [stored |-> stored, response |-> HTTPException("Only CSV files are supported")]
    ELSE IF ~file.parses
    THEN [stored |-> stored, response |-> HTTPException("Invalid CSV file")]
    ELSE IF Len(file.rows) = 0
    THEN [stored |-> stored,
          response |-> HTTPException("Uploaded customers file is empty")]
    ELSE IF REQUIRED_CUSTOMER_COLUMNS \ file.columns # {}
    THEN [stored |-> stored, response |-> HTTPException("Missing required columns")]
    ELSE IF str_accessor_raises(file.rows)
    THEN [stored |-> stored, response |-> HTTPException("Data cleaning error")]
    ELSE LET df == clean_customers(file.rows)
         IN  IF validate_customers(df) # ""
             THEN [stored |-> stored, response |-> Unhandled(validate_customers(df))]
             ELSE [stored |-> Stored(df),
                   response |-> Response(200, "success", Len(df), NoSummary)]

(***************************************************************************)
(* upload_orders (api.py 94-135); nothing in clean_orders raises on a      *)
(* frame that has the four required columns.                               *)
(***************************************************************************)
\* faulty variant: the cleaned frame is stored before it is validated
upload_orders_store_first(file, stored) ==
    IF file.content_type \notin {"text/csv", "application/vnd.ms-excel"}
    THEN [stored |-> stored, response |-> HTTPException("Only CSV files are supported")]
    ELSE IF ~file.parses
    THEN [stored |-> stored, response |-> HTTPException("Invalid CSV file")]
    ELSE IF Len(file.rows) = 0
    THEN [stored |-> stored, response |-> HTTPException("Uploaded orders file is empty")]
    ELSE IF REQUIRED_ORDER_COLUMNS \ file.columns # {}
    THEN [stored |-> stored, response |-> HTTPException("Missing required columns")]
    ELSE LET df == clean_orders(file.rows)
         IN  IF validate_orders(df) # ""
             THEN [stored |-> Stored(df), response |-> Unhandled(validate_orders(df))]
             ELSE [stored |-> Stored(df),
                   response |-> Response(200, "success", Len(df), NoSummary)]

upload_orders(file, stored) ==
    IF file.content_type \notin {"text/csv", "application/vnd.ms-excel"}
    THEN [stored |-> stored, response |-> HTTPException("Only CSV files are supported")]
    ELSE IF ~file.parses
    THEN [stored |-> stored, response |-> HTTPException("Invalid CSV file")]
    ELSE IF Len(file.rows) = 0
    THEN [stored |-> stored, response |-> HTTPException("Uploaded orders file is empty")]
    ELSE IF REQUIRED_ORDER_COLUMNS \ file.columns # {}
    THEN [stored |-> stored, response |-> HTTPException("Missing required columns")]
    ELSE LET df == clean_orders(file.rows)
         IN  IF validate_orders(df) # ""
             THEN [stored |-> stored, response |-> Unhandled(validate_orders(df))]
             ELSE [stored |-> Stored(df),
                   response |-> Response(200, "success", Len(df), NoSummary)]

(***************************************************************************)
(* reconcile (api.py 142-178): the response; it stores nothing.            *)
(***************************************************************************)
reconcile(customers, orders) ==
    IF ~customers.set \/ ~orders.set
    THEN HTTPException("Upload both customers and orders first")
    ELSE Response(200, "", 0,
                  reconcile_customers_orders(customers.df, orders.df).summary)

(***************************************************************************)
(* State.                                                                  *)
(***************************************************************************)
VARIABLES
    pc,             \* the step the program has completed
    error,          \* message of the exception raised, "" if none
    raw_customers,  \* frame handed to clean_customers
    customers_df,   \* customers frame held by the program
    first_pass,     \* customers frame before it was cleaned a second time
    raw_orders,     \* frame handed to clean_orders
    orders_df,      \* orders frame held by the program
    report,         \* result of reconcile_customers_orders
    combined_df,    \* result of build_reconciled_dataset
    CUSTOMERS_DF,   \* customers stored by the service
    ORDERS_DF,      \* orders stored by the service
    response        \* answer to the last request to the service

etl_vars == <<error, raw_customers, customers_df, first_pass, raw_orders,
              orders_df, report, combined_df>>

api_vars == <<CUSTOMERS_DF, ORDERS_DF, response>>

vars == <<pc, etl_vars, api_vars>>

Init ==
    /\ pc = "idle"
    /\ error = ""
    /\ raw_customers = <<>>
    /\ customers_df = <<>>
    /\ first_pass = <<>>
    /\ raw_orders = <<>>
    /\ orders_df = <<>>
    /\ report = reconcile_customers_orders(<<>>, <<>>)
    /\ combined_df = <<>>
    /\ CUSTOMERS_DF = None
    /\ ORDERS_DF = None
    /\ response = Response(0, "", 0, NoSummary)

(***************************************************************************)
(* Customers: clean, validate, and the same two steps on the result.       *)
(***************************************************************************)
CleanCustomers ==
    /\ pc = "idle"
    /\ \E df \in Frames(RawCustomerRows, MaxRows) :
          /\ raw_customers' = df
          /\ customers_df' = clean_customers(df)
    /\ pc' = "customers_cleaned"
    /\ UNCHANGED <<error, first_pass, raw_orders, orders_df, report, combined_df>>
    /\ UNCHANGED api_vars

ValidateCustomers ==
    /\ pc \in {"customers_cleaned", "customers_recleaned"}
    /\ error' = validate_customers(customers_df)
    /\ pc' = IF validate_customers(customers_df) # "" THEN "customers_rejected"
             ELSE IF pc = "customers_cleaned" THEN "customers_validated"
             ELSE "customers_revalidated"
    /\ UNCHANGED <<raw_customers, customers_df, first_pass, raw_orders, orders_df,
                   report, combined_df>>
    /\ UNCHANGED api_vars

RecleanCustomers ==
    /\ pc = "customers_validated"
    /\ first_pass' = customers_df
    /\ customers_df' = clean_customers(customers_df)
    /\ pc' = "customers_recleaned"
    /\ UNCHANGED <<error, raw_customers, raw_orders, orders_df, report, combined_df>>
    /\ UNCHANGED api_vars

(***************************************************************************)
(* Orders: clean, then validate.                                           *)
(***************************************************************************)
CleanOrders ==
    /\ pc = "idle"
    /\ \E df \in Frames(RawOrderRows, MaxRows) :
          /\ raw_orders' = df
          /\ orders_df' = clean_orders(df)
    /\ pc' = "orders_cleaned"
    /\ UNCHANGED <<error, raw_customers, customers_df, first_pass, report, combined_df>>
    /\ UNCHANGED api_vars

ValidateOrders ==
    /\ pc = "orders_cleaned"
    /\ error' = validate_orders(orders_df)
    /\ pc' = IF validate_orders(orders_df) # "" THEN "orders_rejected"
             ELSE "orders_validated"
    /\ UNCHANGED <<raw_customers, customers_df, first_pass, raw_orders, orders_df,
                   report, combined_df>>
    /\ UNCHANGED api_vars

(***************************************************************************)
(* Reconciliation and the combined dataset, on two cleaned frames.         *)
(***************************************************************************)
Reconcile ==
    /\ pc = "idle"
    /\ \E c \in StoredCustomers, o \in StoredOrders :
          /\ customers_df' = c
          /\ orders_df' = o
          /\ report' = reconcile_customers_orders(c, o)
    /\ pc' = "reconciled"
    /\ UNCHANGED <<error, raw_customers, first_pass, raw_orders, combined_df>>
    /\ UNCHANGED api_vars

\* get_combined_dataset: both frames were stored by an upload, so each passed
\* its validator
BuildCombined ==
    /\ pc = "idle"
    /\ \E c \in StoredCustomers, o \in StoredOrders :
          /\ validate_customers(c) = ""
          /\ validate_orders(o) = ""
          /\ customers_df' = c
          /\ orders_df' = o
          /\ combined_df' = build_reconciled_dataset(c, o)
    /\ pc' = "combined"
    /\ UNCHANGED <<error, raw_customers, first_pass, raw_orders, report>>
    /\ UNCHANGED api_vars

(***************************************************************************)
(* Requests to the service.  The process serves requests from its first    *)
(* request on.                                                             *)
(***************************************************************************)
UploadCustomers ==
    /\ pc \in {"idle", "serving"}
    /\ \E file \in CustomerFiles :
          LET done == upload_customers(file, CUSTOMERS_DF)
          IN  /\ CUSTOMERS_DF' = done.stored
              /\ response' = done.response
    /\ pc' = "serving"
    /\ UNCHANGED <<ORDERS_DF, etl_vars>>

UploadOrders ==
    /\ pc \in {"idle", "serving"}
    /\ \E file \in OrderFiles :
          LET done == upload_orders(file, ORDERS_DF)
          IN  /\ ORDERS_DF' = done.stored
              /\ response' = done.response
    /\ pc' = "serving"
    /\ UNCHANGED <<CUSTOMERS_DF, etl_vars>>

ReconcileRequest ==
    /\ pc \in {"idle", "serving"}
    /\ response' = reconcile(CUSTOMERS_DF, ORDERS_DF)
    /\ pc' = "serving"
    /\ UNCHANGED <<CUSTOMERS_DF, ORDERS_DF, etl_vars>>

Next ==
    \/ CleanCustomers
    \/ ValidateCustomers
    \/ RecleanCustomers
    \/ CleanOrders
    \/ ValidateOrders
    \/ Reconcile
    \/ BuildCombined
    \/ UploadCustomers
    \/ UploadOrders
    \/ ReconcileRequest

Spec == Init /\ [][Next]_vars

\* the two cleaning pipelines alone
NextClean ==
    \/ CleanCustomers
    \/ ValidateCustomers
    \/ RecleanCustomers
    \/ CleanOrders
    \/ ValidateOrders

SpecClean == Init /\ [][NextClean]_vars

\* reconciliation and join alone
NextReconcile ==
    \/ Reconcile
    \/ BuildCombined

SpecReconcile == Init /\ [][NextReconcile]_vars

\* the service alone
NextService ==
    \/ UploadCustomers
    \/ UploadOrders
    \/ ReconcileRequest

SpecService == Init /\ [][NextService]_vars

(***************************************************************************)
(* Vocabulary of the properties.                                           *)
(***************************************************************************)
InFrame(r, df) == \E i \in 1..Len(df) : df[i] = r

NormKeys(df) == {normalize_key(df[i].customer_id) : i \in 1..Len(df)}

RawKeys(df) == {df[i].customer_id : i \in 1..Len(df)}

HasRepeat(col) == \E i, j \in 1..Len(col) : i < j /\ col[i] = col[j]

HasKey(r) == r.customer_id # Null

HasBothIds(r) == r.order_id # Null /\ r.customer_id # Null

Reconciled == pc = "reconciled"

(***************************************************************************)
(* C1 (stated as claimed): after reconcile_customers_orders(C, O), every   *)
(* order row o is in exactly one of two cases: o is in                     *)
(* orders_without_customers, or the normalised customer_id of o is one of  *)
(* the normalised customer keys of C.                                      *)
(***************************************************************************)
C1_PartitionOnNormalizedKeys ==
    Reconciled =>
        \A i \in 1..Len(orders_df) :
            InFrame(orders_df[i], report.orders_without_customers)
                <=> ~(normalize_key(orders_df[i].customer_id) \in NormKeys(customers_df))

(***************************************************************************)
(* C2: customers_without_orders is the subsequence of C, in C's order, of  *)
(* the customer rows whose customer_id is none of the customer_id values   *)
(* occurring in O, however many orders refer to one customer.              *)
(***************************************************************************)
C2_CustomersWithoutOrders ==
    Reconciled =>
        report.customers_without_orders
            = SelectSeq(customers_df, LAMBDA c : c.customer_id \notin RawKeys(orders_df))

\* two customers, two orders of the first one: the second customer alone is reported
C2_Witness ==
    /\ Reconciled
    /\ Len(customers_df) = 2
    /\ Len(orders_df) = 2
    /\ orders_df[1].customer_id = customers_df[1].customer_id
    /\ orders_df[2].customer_id = customers_df[1].customer_id
    /\ report.customers_without_orders = <<customers_df[2]>>

(***************************************************************************)
(* C3: the report has its three parts and the summary exactly four counts: *)
(* total_customers and total_orders are the row counts of C and O, the two *)
(* orphan counts are the lengths of the two returned subsets; on zero-row  *)
(* inputs the subsets are empty and all counts are 0.                      *)
(***************************************************************************)
C3_SummaryCounts ==
    Reconciled =>
        /\ DOMAIN report =
              {"orders_without_customers", "customers_without_orders", "summary"}
        /\ DOMAIN report.summary =
              {"total_customers", "total_orders", "orders_without_customers",
               "customers_without_orders"}
        /\ report.summary.total_customers = Len(customers_df)
        /\ report.summary.total_orders = Len(orders_df)
        /\ report.summary.orders_without_customers
              = Len(report.orders_without_customers)
        /\ report.summary.customers_without_orders
              = Len(report.customers_without_orders)
        /\ (Len(customers_df) = 0 /\ Len(orders_df) = 0 =>
              /\ report.orders_without_customers = <<>>
              /\ report.customers_without_orders = <<>>
              /\ \A k \in DOMAIN report.summary : report.summary[k] = 0)

\* two customers, two orders, one orphan on each side
C3_Witness ==
    /\ Reconciled
    /\ report.summary.total_customers = 2
    /\ report.summary.total_orders = 2
    /\ report.summary.orders_without_customers = 1
    /\ report.summary.customers_without_orders = 1

(***************************************************************************)
(* C4 (stated as claimed): the orders cleaner never returns a row-set that *)
(* still contains a repeated order_id.                                     *)
(***************************************************************************)
C4_CleanerRejectsDuplicates ==
    pc = "orders_cleaned" => ~HasRepeat(Column(orders_df, "order_id"))

(***************************************************************************)
(* C4 (amended): clean_orders keeps every row with both ids, repeated      *)
(* order_ids included; validate_orders, run on its result, fails with      *)
(* "Duplicate order IDs found" whenever two kept rows share an order_id,   *)
(* and a frame that passes it has no repeated order_id.                    *)
(***************************************************************************)
C4_ValidatorRejectsDuplicates ==
    LET kept == SelectSeq(raw_orders, HasBothIds)
    IN  /\ pc \in {"orders_cleaned", "orders_validated", "orders_rejected"} =>
              Column(orders_df, "order_id") = Column(kept, "order_id")
        /\ pc \in {"orders_validated", "orders_rejected"}
              /\ HasRepeat(Column(kept, "order_id")) =>
                  pc = "orders_rejected" /\ error = "Duplicate order IDs found"
        /\ pc = "orders_validated" => ~HasRepeat(Column(orders_df, "order_id"))

C4_Witness ==
    /\ pc = "orders_rejected"
    /\ error = "Duplicate order IDs found"
    /\ Len(orders_df) = 2
    /\ orders_df[1].order_id = orders_df[2].order_id

(***************************************************************************)
(* C5 (stated as claimed): clean_customers fails when two rows with a      *)
(* customer_id have the same normalised id, and every row-set it returns   *)
(* has pairwise distinct normalised ids.                                   *)
(***************************************************************************)
C5_DuplicateCustomersRejected ==
    LET kept == SelectSeq(raw_customers, HasKey)
        norm == [i \in 1..Len(kept) |-> normalize_key(kept[i].customer_id)]
    IN  pc = "customers_cleaned" =>
            /\ HasRepeat(norm) => error # ""
            /\ error = "" =>
                  ~HasRepeat([i \in 1..Len(customers_df) |->
                                normalize_key(customers_df[i].customer_id)])

(***************************************************************************)
(* C6 (stated as claimed): an order and a customer whose customer_id agree *)
(* after normalisation match: the order is not in orders_without_customers *)
(* and the customer is not in customers_without_orders.                    *)
(***************************************************************************)
C6_MatchAfterNormalization ==
    Reconciled =>
        \A i \in 1..Len(orders_df), j \in 1..Len(customers_df) :
            normalize_key(orders_df[i].customer_id)
                    = normalize_key(customers_df[j].customer_id) =>
                /\ ~InFrame(orders_df[i], report.orders_without_customers)
                /\ ~InFrame(customers_df[j], report.customers_without_orders)

Coercible(c) == c.t = "num" \/ (c.t = "str" /\ IsNumberText(c.s))

Parses(c) == c.t = "date" \/ (c.t = "str" /\ IsDateText(c.s))

C8_FlagsAgreeWithValues ==
    /\ pc = "orders_cleaned" =>
          LET kept == SelectSeq(raw_orders, HasBothIds)
          IN  /\ Len(orders_df) = Len(kept)
              /\ \A i \in 1..Len(orders_df) :
                    /\ orders_df[i].amount_valid = Bool(Coercible(kept[i].amount))
                    /\ Coercible(kept[i].amount) <=> orders_df[i].amount.t = "num"
                    /\ ~Coercible(kept[i].amount) <=> orders_df[i].amount = Null
                    /\ kept[i].amount = Amount100 => orders_df[i].amount = Num(1000)
                    /\ kept[i].amount = Amount200 => orders_df[i].amount = Num(2000)
                    /\ kept[i].amount = AmountInvalid => orders_df[i].amount = Null
                    /\ orders_df[i].order_date_valid = Bool(Parses(kept[i].order_date))
                    /\ Parses(kept[i].order_date) <=> orders_df[i].order_date.t = "date"
                    /\ ~Parses(kept[i].order_date) <=> orders_df[i].order_date = Null
    /\ pc = "customers_cleaned" =>
          \A i \in 1..Len(customers_df) :
              \E j \in 1..Len(raw_customers) :
                  /\ raw_customers[j].customer_id = customers_df[i].customer_id
                  /\ \A k \in 1..(j - 1) :
                        raw_customers[k].customer_id # customers_df[i].customer_id
                  /\ customers_df[i].signup_date_valid
                        = Bool(Parses(raw_customers[j].signup_date))
                  /\ Parses(raw_customers[j].signup_date)
                        <=> customers_df[i].signup_date.t = "date"
                  /\ ~Parses(raw_customers[j].signup_date)
                        <=> customers_df[i].signup_date = Null

\* the first two amounts of scenario D
C8_Witness ==
    /\ pc = "orders_cleaned"
    /\ Len(orders_df) = 2
    /\ raw_orders[1].amount = Amount100
    /\ raw_orders[2].amount = AmountInvalid
    /\ orders_df[1].amount = Num(1000) /\ orders_df[1].amount_valid = Bool(TRUE)
    /\ orders_df[2].amount = Null /\ orders_df[2].amount_valid = Bool(FALSE)

C10_SecondPassIsNoOp ==
    pc \in {"customers_recleaned", "customers_revalidated"}
            \/ (pc = "customers_rejected" /\ first_pass # <<>>) =>
        /\ customers_df = first_pass
        /\ validate_customers(customers_df) = ""
        /\ pc # "customers_rejected"
        /\ error = ""

\* second pass over a parsed date, an unparsed one, a matching and a missing email
C10_Witness ==
    /\ pc = "customers_revalidated"
    /\ Len(first_pass) = 2
    /\ customers_df[1].signup_date.t = "date"
    /\ customers_df[1].email_valid = Null
    /\ customers_df[2].signup_date = Null
    /\ customers_df[2].email_valid = Bool(TRUE)

(***************************************************************************)
(* C11: over any sequence of upload_customers, upload_orders and reconcile *)
(* requests, a stored dataset is replaced only by a dataset that passed    *)
(* cleaning (cleaning it again changes nothing) and validation, by a       *)
(* request answered 200, and a request that fails leaves both stored       *)
(* datasets unchanged; so each stored dataset is unset or non-empty and    *)
(* the stored orders have no repeated order_id.                            *)
(***************************************************************************)
C11_StoredAreValid ==
    /\ CUSTOMERS_DF.set => validate_customers(CUSTOMERS_DF.df) = ""
    /\ CUSTOMERS_DF.set => Len(CUSTOMERS_DF.df) > 0
    /\ ORDERS_DF.set => validate_orders(ORDERS_DF.df) = ""
    /\ ORDERS_DF.set => Len(ORDERS_DF.df) > 0
    /\ ORDERS_DF.set => ~HasRepeat(Column(ORDERS_DF.df, "order_id"))

C11_ReplacedOnlyOnSuccess ==
    /\ response'.status # 200 => UNCHANGED <<CUSTOMERS_DF, ORDERS_DF>>
    /\ CUSTOMERS_DF' # CUSTOMERS_DF =>
          /\ response'.status = 200
          /\ CUSTOMERS_DF'.set
          /\ clean_customers(CUSTOMERS_DF'.df) = CUSTOMERS_DF'.df
          /\ validate_customers(CUSTOMERS_DF'.df) = ""
          /\ response'.rows = Len(CUSTOMERS_DF'.df)
          /\ ORDERS_DF' = ORDERS_DF
    /\ ORDERS_DF' # ORDERS_DF =>
          /\ response'.status = 200
          /\ ORDERS_DF'.set
          /\ clean_orders(ORDERS_DF'.df) = ORDERS_DF'.df
          /\ validate_orders(ORDERS_DF'.df) = ""
          /\ response'.rows = Len(ORDERS_DF'.df)
          /\ CUSTOMERS_DF' = CUSTOMERS_DF

C11_StoredOnlyAfterValidation ==
    []C11_StoredAreValid /\ [][C11_ReplacedOnlyOnSuccess]_vars

\* both datasets stored, then an orders upload refused for a repeated order_id
C11_Witness ==
    /\ CUSTOMERS_DF.set
    /\ ORDERS_DF.set
    /\ response.status = 500
    /\ response.detail = "Duplicate order IDs found"

====
